---- MODULE Spec2Model ----
(***************************************************************************)
(* Webhook service: POST /webhook (HMAC signature check, payload           *)
(* validation, idempotent insert into the SQLite table `messages`), the    *)
(* read endpoints GET /messages and GET /stats, the health probes, the     *)
(* logging middleware and the in-memory metrics.                           *)
(*                                                                         *)
(* Strings are sequences of one-character tokens.  A token "U+xxxx" stands *)
(* for the non-ASCII code point of that number and "LF" for a newline.     *)
(* An Optional[str] (and a JSON value) is a record [kind, s].              *)
(***************************************************************************)
EXTENDS Integers, Sequences, FiniteSets, TLC

(***************************************************************************)
(* Bounds of the model.                                                    *)
(***************************************************************************)
MaxSlots == 2
MaxReqs == 2
MaxClock == 1

(***************************************************************************)
(* Strings and optional values.                                            *)
(***************************************************************************)
Digits == {"0", "1", "2", "3", "4", "5", "6", "7", "8", "9"}

\* Code points outside ASCII that the inputs below use: U+00E9 is a Latin-1
\* letter, U+0663 is ARABIC-INDIC DIGIT THREE (category Nd).
NonAscii == {"U+00E9", "U+0663"}

\* What \d matches in a Python str pattern: every Unicode decimal digit.
UnicodeDigits == Digits \cup {"U+0663"}

IsAscii(s) == \A i \in 1..Len(s) : s[i] \notin NonAscii

None == [kind |-> "null", s |-> <<>>]

Str(s) == [kind |-> "string", s |-> s]

\* Python truthiness of an Optional[str]: None and "" are falsy.
Truthy(v) == v.kind = "string" /\ Len(v.s) > 0

Repeat(c, n) == [i \in 1..n |-> c]

\* Code points of the tokens, for the byte-wise (BINARY) comparison of SQLite.
CodePoint(c) ==
    CASE c = "LF" -> 10
      [] c = "%" -> 37
      [] c = "+" -> 43
      [] c = "-" -> 45
      [] c = "." -> 46
      [] c \in Digits -> 48 + (CHOOSE d \in 0..9 : <<"0", "1", "2", "3", "4", "5", "6", "7", "8", "9">>[d + 1] = c)
      [] c = ":" -> 58
      [] c = "A" -> 65 [] c = "B" -> 66 [] c = "C" -> 67
      [] c = "D" -> 68 [] c = "E" -> 69 [] c = "F" -> 70
      [] c = "T" -> 84
      [] c = "Z" -> 90
      [] c = "_" -> 95
      [] c = "a" -> 97 [] c = "b" -> 98 [] c = "c" -> 99
      [] c = "d" -> 100 [] c = "e" -> 101 [] c = "f" -> 102
      [] c = "k" -> 107
      [] c = "m" -> 109
      [] c = "t" -> 116
      [] c = "u" -> 117
      [] c = "U+00E9" -> 233
      [] c = "U+0663" -> 1635

\* a < b, lexicographically by code point.
StrLess(a, b) ==
    \E i \in 1..(Len(b)) :
        /\ \A j \in 1..(i - 1) : j <= Len(a) /\ a[j] = b[j]
        /\ \/ i = Len(a) + 1
           \/ i <= Len(a) /\ CodePoint(a[i]) < CodePoint(b[i])

StrLeq(a, b) == a = b \/ StrLess(a, b)

(***************************************************************************)
(* app/models.py: WebhookPayload.                                          *)
(***************************************************************************)
MAX_TEXT_LENGTH == 4096

\* The positions at which `$` matches: the end of the string and, when the
\* string ends in a newline, just before that newline.
DollarEnds(v) ==
    {Len(v)} \cup (IF Len(v) >= 1 /\ v[Len(v)] = "LF" THEN {Len(v) - 1} ELSE {})

\* re.match(r'^\+\d+$', v)
validate_e164(v) ==
    \E e \in DollarEnds(v) :
        /\ e >= 2
        /\ v[1] = "+"
        /\ \A i \in 2..e : v[i] \in UnicodeDigits

IsoFixed ==
    <<"d", "d", "d", "d", "-", "d", "d", "-", "d", "d", "T",
      "d", "d", ":", "d", "d", ":", "d", "d">>

\* re.match(r'^\d{4}-\d{2}-\d{2}T\d{2}:\d{2}:\d{2}(\.\d+)?Z$', v)
validate_iso8601(v) ==
    \E e \in DollarEnds(v) :
        /\ e >= Len(IsoFixed) + 1
        /\ \A i \in 1..Len(IsoFixed) :
              IF IsoFixed[i] = "d" THEN v[i] \in UnicodeDigits ELSE v[i] = IsoFixed[i]
        /\ v[e] = "Z"
        /\ \/ e = Len(IsoFixed) + 1
           \/ /\ e >= Len(IsoFixed) + 3
              /\ v[Len(IsoFixed) + 1] = "."
              /\ \A i \in (Len(IsoFixed) + 2)..(e - 1) : v[i] \in UnicodeDigits

\* A field of the parsed JSON object that must be a string.
IsStrField(obj, f) == f \in DOMAIN obj /\ obj[f].kind = "string"

\* WebhookPayload.model_validate_json(body): TRUE iff no ValidationError.
\* The body is given by the result of JSON parsing: malformed, or an object
\* mapping field names to JSON values.  Unknown fields are ignored.
PayloadValid(body) ==
    /\ body.json = "object"
    /\ IsStrField(body.obj, "message_id") /\ Len(body.obj["message_id"].s) >= 1
    /\ IsStrField(body.obj, "from") /\ validate_e164(body.obj["from"].s)
    /\ IsStrField(body.obj, "to") /\ validate_e164(body.obj["to"].s)
    /\ IsStrField(body.obj, "ts") /\ validate_iso8601(body.obj["ts"].s)
    /\ \/ "text" \notin DOMAIN body.obj
       \/ body.obj["text"].kind = "null"
       \/ /\ body.obj["text"].kind = "string"
          /\ Len(body.obj["text"].s) <= MAX_TEXT_LENGTH

\* The validated model: the declared fields only, values as submitted.
WebhookPayload(body) ==
    [message_id |-> body.obj["message_id"].s,
     from_ |-> body.obj["from"].s,
     to |-> body.obj["to"].s,
     ts |-> body.obj["ts"].s,
     text |-> IF "text" \in DOMAIN body.obj THEN body.obj["text"] ELSE None]

NoPayload == [message_id |-> <<>>, from_ |-> <<>>, to |-> <<>>, ts |-> <<>>, text |-> None]

(***************************************************************************)
(* Inputs: request bodies and X-Signature header values.                   *)
(***************************************************************************)
M1 == <<"m", "1">>

M2 == <<"m", "2">>

P1 == <<"+", "1">>

P2 == <<"+", "2">>

T1 == <<"2", "0", "2", "4", "-", "0", "1", "-", "1", "5", "T",
        "1", "0", ":", "3", "0", ":", "0", "0", "Z">>

T2 == <<"2", "0", "2", "4", "-", "0", "1", "-", "1", "5", "T",
        "1", "0", ":", "3", "0", ":", "0", "1", ".", "5", "Z">>

Obj(id, from, to, ts) ==
    [f \in {"message_id", "from", "to", "ts"} |->
        CASE f = "message_id" -> Str(id)
          [] f = "from" -> Str(from)
          [] f = "to" -> Str(to)
          [] OTHER -> Str(ts)]

Json(obj) == [json |-> "object", obj |-> obj]

Malformed == [json |-> "malformed", obj |-> <<>>]

\* A client-chosen value for a field the payload model does not declare.
ClientCreatedAt == <<"1", "9", "9", "9">>

BodyList ==
    << Json(Obj(M1, P1, P2, T1) @@ ("text" :> Str(<<"a">>))),
       Json(Obj(M1, P2, P1, T2) @@ ("text" :> Str(<<"b">>))
                                @@ ("created_at" :> Str(ClientCreatedAt))),
       Json(Obj(M2, P1, P2, T1)),
       Malformed,
       Json([f \in {"message_id", "from", "ts"} |-> Obj(M1, P1, P2, T1)[f]]),
       Json(Obj(<<>>, P1, P2, T1)),
       Json(Obj(M1, <<"1">>, P2, T1)),
       Json(Obj(M1, P1, P2, <<"2", "0", "2", "4">>)),
       Json(Obj(M2, P1, P2, T1) @@ ("text" :> Str(Repeat("a", MAX_TEXT_LENGTH + 1)))),
       Json(Obj(M2, P1 \o <<"LF">>, P2, T1)),
       Json(Obj(M2, P1, <<"+", "U+0663">>, T1)),
       Json(Obj(M2, P1, P2, T1 \o <<"LF">>)),
       Json(Obj(M2, P1, P2, T1) @@ ("text" :> Str(Repeat("a", MAX_TEXT_LENGTH)))),
       Json(Obj(M2, P1, P2, T1) @@ ("text" :> [kind |-> "number", s |-> <<>>])),
       Json(Obj(M2, P1 \o <<"a">>, P2, T1)) >>

Bodies == {BodyList[i] : i \in 1..Len(BodyList)}

BodyIndex(body) == CHOOSE i \in 1..Len(BodyList) : BodyList[i] = body

Secrets == {<<>>, <<"k">>}

(***************************************************************************)
(* app/main.py: verify_signature.                                          *)
(***************************************************************************)
HexDigits == <<"0", "1", "2", "3", "4", "5", "6", "7", "8", "9",
               "a", "b", "c", "d", "e", "f">>

\* hmac.new(secret, body, hashlib.sha256).hexdigest(): lowercase hex.  The
\* digest is a keyed function of the body, collision-free on the inputs.
HmacHex(secret, body) ==
    <<HexDigits[11 + Len(secret)], HexDigits[1 + BodyIndex(body)]>>

Upper(s) ==
    [i \in 1..Len(s) |->
        CASE s[i] = "a" -> "A" [] s[i] = "b" -> "B" [] s[i] = "c" -> "C"
          [] s[i] = "d" -> "D" [] s[i] = "e" -> "E" [] s[i] = "f" -> "F"
          [] OTHER -> s[i]]

\* hmac.compare_digest(a, b) on two str: TypeError unless both are ASCII.
compare_digest(a, b) ==
    IF IsAscii(a) /\ IsAscii(b)
    THEN (IF a = b THEN "True" ELSE "False")
    ELSE "TypeError"

\* verify_signature(body, signature) under the configured secret: "True",
\* "False", or the exception it raises.
verify_signature(secret, body, signature) ==
    IF ~Truthy(signature)
    THEN "False"
    ELSE compare_digest(HmacHex(secret, body), signature.s)

\* The X-Signature values a client may send with a body: none, empty, one
\* that is no digest, one outside ASCII, and the digest of the body under
\* each key in lower and in upper case.
Signatures(body) ==
    {None, Str(<<>>), Str(<<"0", "0">>), Str(<<"U+00E9">>)}
    \cup {Str(HmacHex(k, body)) : k \in Secrets}
    \cup {Str(Upper(HmacHex(k, body))) : k \in Secrets}

Input(body, signature) == [body |-> body, signature |-> signature]

\* Every body with every header value.
AllInputs ==
    UNION {{Input(body, signature) : signature \in Signatures(body)} : body \in Bodies}

\* The inputs of the concurrent specification: the valid bodies and one
\* invalid body, signed under each key; the first body also unsigned and
\* with a header outside ASCII.
CoreInputs ==
    {Input(BodyList[i], Str(HmacHex(k, BodyList[i]))) : i \in 1..4, k \in Secrets}
    \cup {Input(BodyList[1], None), Input(BodyList[1], Str(<<"U+00E9">>))}

(***************************************************************************)
(* app/storage.py: the table `messages` and INSERT OR IGNORE.              *)
(***************************************************************************)
ClockTokens == <<"0", "1", "2", "3", "4", "5", "6", "7", "8", "9">>

\* datetime.now(timezone.utc).isoformat() at instant t.
isoformat(t) == <<"u", "t", "c", ClockTokens[t + 1]>>

Row(message_id, from_msisdn, to_msisdn, ts, text, created_at) ==
    [message_id |-> message_id, from_msisdn |-> from_msisdn,
     to_msisdn |-> to_msisdn, ts |-> ts, text |-> text,
     created_at |-> created_at]

\* PRIMARY KEY lookup.
HasKey(tbl, message_id) == \E row \in tbl : row.message_id = message_id

\* Mutant: the row is added without the lookup of its key.
InsertAlways(tbl, row) == {row}

\* The rows INSERT OR IGNORE adds to the transaction: none on a key conflict.
InsertOrIgnore(tbl, row) ==
    IF HasKey(tbl, row.message_id) THEN {} ELSE {row}

\* cursor.rowcount of that statement.
Rowcount(tbl, row) == Cardinality(InsertOrIgnore(tbl, row))

\* Mutant: the test of rowcount inverted.
IsDuplicateWhenInserted(rowcount) == rowcount # 0

\* is_duplicate = cursor.rowcount == 0
IsDuplicate(rowcount) == rowcount = 0

\* ASCII case folding, as LIKE does it.
Fold(c) ==
    CASE c = "A" -> "a" [] c = "B" -> "b" [] c = "C" -> "c"
      [] c = "D" -> "d" [] c = "E" -> "e" [] c = "F" -> "f"
      [] OTHER -> c

\* text LIKE pattern: % is any run of characters, _ any one character.
RECURSIVE Like(_, _)
Like(t, p) ==
    IF p = <<>> THEN t = <<>>
    ELSE IF Head(p) = "%"
         THEN \E i \in 0..Len(t) : Like(SubSeq(t, i + 1, Len(t)), Tail(p))
         ELSE /\ t # <<>>
              /\ Head(p) = "_" \/ Fold(Head(p)) = Fold(Head(t))
              /\ Like(Tail(t), Tail(p))

\* The WHERE clause get_messages builds (storage.py lines 108-124).
Where(row, from_filter, since_filter, q_filter) ==
    /\ Truthy(from_filter) => row.from_msisdn = from_filter.s
    /\ Truthy(since_filter) => StrLeq(since_filter.s, row.ts)
    /\ Truthy(q_filter) =>
          /\ row.text.kind = "string"
          /\ Like(row.text.s, <<"%">> \o q_filter.s \o <<"%">>)

\* ORDER BY message_id alone.
RowBeforeByKey(a, b) == StrLess(a.message_id, b.message_id)

\* ORDER BY ts ASC, message_id ASC
RowBefore(a, b) ==
    \/ StrLess(a.ts, b.ts)
    \/ a.ts = b.ts /\ StrLess(a.message_id, b.message_id)

RECURSIVE OrderBy(_)
OrderBy(rows) ==
    IF rows = {} THEN <<>>
    ELSE LET first == CHOOSE x \in rows : \A y \in rows : ~RowBefore(y, x)
         IN <<first>> \o OrderBy(rows \ {first})

\* LIMIT ? with the offset dropped.
LimitOnly(list, limit, offset) ==
    SubSeq(list, 1, IF limit < Len(list) THEN limit ELSE Len(list))

\* LIMIT ? OFFSET ?
LimitOffset(list, limit, offset) ==
    SubSeq(list, offset + 1, IF offset + limit < Len(list) THEN offset + limit ELSE Len(list))

\* SELECT COUNT(*) FROM messages WHERE ... (storage.py lines 128-129)
CountQuery(tbl, query) ==
    Cardinality({row \in tbl : Where(row, query.from_, query.since, query.q)})

\* The page query (storage.py lines 132-142).
DataQuery(tbl, query) ==
    LimitOffset(OrderBy({row \in tbl : Where(row, query.from_, query.since, query.q)}),
                query.limit, query.offset)

\* The senders of a table and the number of rows of each.
Senders(tbl) == {row.from_msisdn : row \in tbl}

SenderCount(tbl, from) == Cardinality({row \in tbl : row.from_msisdn = from})

\* The results GROUP BY from_msisdn ORDER BY count DESC LIMIT 10 may give:
\* SQL leaves the order among equal counts open.
TOP_SENDERS == 10

\* The lists of at most n of `senders`, by count descending, in every order
\* of the senders of equal count.
RECURSIVE TopLists(_, _, _)
TopLists(tbl, senders, n) ==
    IF n = 0 \/ senders = {} THEN {<<>>}
    ELSE LET most == {from \in senders :
                         \A other \in senders :
                             SenderCount(tbl, from) >= SenderCount(tbl, other)}
         IN UNION {{<<from>> \o rest : rest \in TopLists(tbl, senders \ {from}, n - 1)} :
                   from \in most}

\* GROUP BY from_msisdn ORDER BY count DESC with no LIMIT.
AllSenders(tbl) == TopLists(tbl, Senders(tbl), Cardinality(tbl))

TopSenders(tbl) == TopLists(tbl, Senders(tbl), TOP_SENDERS)

\* MIN(ts) and MAX(ts): NULL on an empty table.
MinTs(tbl) ==
    IF tbl = {} THEN None
    ELSE Str(CHOOSE t \in {row.ts : row \in tbl} : \A row \in tbl : StrLeq(t, row.ts))

MaxTs(tbl) ==
    IF tbl = {} THEN None
    ELSE Str(CHOOSE t \in {row.ts : row \in tbl} : \A row \in tbl : StrLeq(row.ts, t))

(***************************************************************************)
(* State.                                                                  *)
(***************************************************************************)
VARIABLES
    webhook_secret,          \* config.webhook_secret
    table,                   \* committed rows of `messages`
    writer,                  \* the request holding SQLite's write lock, or 0
    clock,                   \* datetime.now
    req,                     \* the requests being handled, by slot
    nreq,                    \* requests accepted so far
    webhook_requests_total,  \* metrics.webhook_requests_total
    http_requests_total      \* metrics.http_requests_total

vars == <<webhook_secret, table, writer, clock, req, nreq,
          webhook_requests_total, http_requests_total>>

Slots == 1..MaxSlots

Results == {"success", "duplicate", "invalid_signature", "validation_error", "db_error"}

Paths == {"/webhook", "/messages", "/stats", "/health/live", "/health/ready", "/metrics"}

Statuses == {200, 401, 422, 500, 503}

HttpKeys == {"GET", "POST"} \X Paths \X Statuses

\* pc values in which a request has been answered.
Terminal == {"Responded", "RejectedSignature", "RejectedValidation", "StoreFailed", "Fault"}

NoQuery == [limit |-> 0, offset |-> 0, from_ |-> None, since |-> None, q |-> None]

NoStats ==
    [total_messages |-> 0, senders_count |-> 0, messages_per_sender |-> <<>>,
     first_message_ts |-> None, last_message_ts |-> None]

IdleReq ==
    [kind |-> "none", pc |-> "idle", method |-> "none", path |-> "none",
     body |-> Malformed, signature |-> None, payload |-> NoPayload,
     rows_before |-> {}, created_at |-> <<>>, pending |-> {}, rowcount |-> 0,
     store_raised |-> FALSE,
     query |-> NoQuery, data |-> <<>>, total |-> 0, echo |-> <<0, 0>>,
     stats |-> NoStats,
     status |-> 0, detail |-> "none", unhandled |-> FALSE, result |-> "none",
     logged |-> <<>>, counted |-> <<>>, http_counted |-> 0]

Init ==
    /\ webhook_secret \in Secrets
    /\ table = {}
    /\ writer = 0
    /\ clock = 0
    /\ req = [r \in Slots |-> IdleReq]
    /\ nreq = 0
    /\ webhook_requests_total = [l \in Results |-> 0]
    /\ http_requests_total = [k \in HttpKeys |-> 0]

(***************************************************************************)
(* app/logging_utils.py, app/metrics.py, the middleware of app/main.py.    *)
(***************************************************************************)
\* log_json(level, method, path, status, ..., result): one record printed.
log_json(rec, level, status, result) ==
    [rec EXCEPT !.logged = Append(@, [level |-> level, method |-> rec.method,
                                      path |-> rec.path, status |-> status,
                                      result |-> result])]

\* metrics.increment_webhook_request(result), with the request's own tally.
increment_webhook_request(rec, result) ==
    [rec EXCEPT !.counted = Append(@, result)]

\* The handler returned a response: logging_middleware after call_next.
MiddlewareReturn(rec, status, detail) ==
    LET logged == IF rec.path # "/webhook"
                  THEN log_json(rec, "INFO", status, "none")
                  ELSE rec
    IN [logged EXCEPT !.status = status, !.detail = detail,
                      !.http_counted = @ + 1]

\* The handler raised: call_next re-raises, the rest of the middleware is
\* skipped and the server answers 500 "Internal Server Error" (plain text).
MiddlewareRaise(rec) ==
    [rec EXCEPT !.status = 500, !.detail = "Internal Server Error",
                !.unhandled = TRUE]

\* The counters after a request has moved from record `old` to `new`.
HttpCounted(old, new) ==
    IF new.http_counted > old.http_counted
    THEN [http_requests_total EXCEPT ![<<new.method, new.path, new.status>>] = @ + 1]
    ELSE http_requests_total

WebhookCounted(old, new) ==
    IF Len(new.counted) > Len(old.counted)
    THEN [webhook_requests_total EXCEPT ![new.counted[Len(new.counted)]] = @ + 1]
    ELSE webhook_requests_total

\* Request r moves from record `old` to `new`; the metrics follow.
Step(r, old, new) ==
    /\ req' = [req EXCEPT ![r] = new]
    /\ http_requests_total' = HttpCounted(old, new)
    /\ webhook_requests_total' = WebhookCounted(old, new)

Answer(r, new) == Step(r, req[r], new)

(***************************************************************************)
(* app/main.py: POST /webhook.                                             *)
(***************************************************************************)
\* Lines 96-110: verification failed.
RejectSignature(rec) ==
    MiddlewareReturn(
        increment_webhook_request(
            log_json([rec EXCEPT !.pc = "RejectedSignature",
                                 !.result = "invalid_signature"],
                     "ERROR", 401, "invalid_signature"),
            "invalid_signature"),
        401, "invalid signature")

\* Lines 115-126: ValidationError caught, logged, counted and re-raised.
RejectValidation(rec) ==
    MiddlewareRaise(
        increment_webhook_request(
            log_json([rec EXCEPT !.pc = "RejectedValidation",
                                 !.result = "validation_error"],
                     "ERROR", 422, "validation_error"),
            "validation_error"))

\* Lines 137-152: insert_message returned success = False.
StoreFailed(rec) ==
    MiddlewareReturn(
        increment_webhook_request(
            log_json([rec EXCEPT !.pc = "StoreFailed", !.result = "db_error"],
                     "ERROR", 500, "db_error"),
            "db_error"),
        500, "database error")

\* Line 155.
Classify(is_duplicate) == IF is_duplicate THEN "duplicate" ELSE "success"

\* Lines 154-168: insert_message returned (True, is_duplicate).
Respond(rec, is_duplicate) ==
    MiddlewareReturn(
        increment_webhook_request(
            log_json([rec EXCEPT !.pc = "Responded",
                                 !.result = Classify(is_duplicate)],
                     "INFO", 200, Classify(is_duplicate)),
            Classify(is_duplicate)),
        200, "ok")

\* The rows stored under the message_id of a body, if it names one.
RowsOf(tbl, body) ==
    IF body.json = "object" /\ IsStrField(body.obj, "message_id")
    THEN {row \in tbl : row.message_id = body.obj["message_id"].s}
    ELSE {}

\* A request is handled in the lowest slot that is not handling one.
FreeSlot(r) ==
    /\ req[r].pc \in Terminal \cup {"idle"}
    /\ \A s \in 1..(r - 1) : req[s].pc \notin Terminal \cup {"idle"}

\* A POST /webhook arrives: the middleware starts, the raw body and the
\* X-Signature header are read (lines 88-93).
Receive(r, inputs) ==
    /\ nreq < MaxReqs
    /\ FreeSlot(r)
    /\ \E in \in inputs :
            req' = [req EXCEPT ![r] =
                      [IdleReq EXCEPT !.kind = "webhook", !.pc = "Received",
                                      !.method = "POST", !.path = "/webhook",
                                      !.body = in.body, !.signature = in.signature,
                                      !.rows_before = RowsOf(table, in.body)]]
    /\ nreq' = nreq + 1
    /\ UNCHANGED <<webhook_secret, table, writer, clock,
                   webhook_requests_total, http_requests_total>>

WebhookReceive(r) == Receive(r, CoreInputs)

\* Lines 95-110.
WebhookVerify(r) ==
    /\ req[r].kind = "webhook" /\ req[r].pc = "Received"
    /\ LET v == verify_signature(webhook_secret, req[r].body, req[r].signature)
       IN Answer(r, CASE v = "True" -> [req[r] EXCEPT !.pc = "SignatureChecked"]
                      [] v = "False" -> RejectSignature(req[r])
                      [] OTHER -> MiddlewareRaise([req[r] EXCEPT !.pc = "Fault"]))
    /\ UNCHANGED <<webhook_secret, table, writer, clock, nreq>>

\* Lines 112-126.
WebhookValidate(r) ==
    /\ req[r].kind = "webhook" /\ req[r].pc = "SignatureChecked"
    /\ Answer(r, IF PayloadValid(req[r].body)
                 THEN [req[r] EXCEPT !.pc = "Validated",
                                     !.payload = WebhookPayload(req[r].body)]
                 ELSE RejectValidation(req[r]))
    /\ UNCHANGED <<webhook_secret, table, writer, clock, nreq>>

\* Mutant: the key lookup and the insert are not atomic.
NoWriteLock == TRUE

\* SQLite lets one connection at a time hold the write lock.
WriteLockFree == writer = 0

\* Mutant: the sender and the recipient bound in the wrong order.
NewRowSwapped(payload, created_at) ==
    Row(payload.message_id, payload.to, payload.from_, payload.ts,
        payload.text, created_at)

\* The row insert_message binds to the statement (storage.py lines 74-85).
NewRow(payload, created_at) ==
    Row(payload.message_id, payload.from_, payload.to, payload.ts,
        payload.text, created_at)

\* Mutant: the exception of the store is swallowed.
insert_message_swallow(raised, rowcount) == <<TRUE, IsDuplicate(rowcount)>>

\* What insert_message returns, (success, is_duplicate): the try/except of
\* storage.py lines 76-92 turns every exception into (False, False).
insert_message(raised, rowcount) ==
    IF raised THEN <<FALSE, FALSE>> ELSE <<TRUE, IsDuplicate(rowcount)>>

\* main.py lines 137-168: the handler after insert_message has returned.
AfterInsert(rec, returned) ==
    IF ~returned[1] THEN StoreFailed(rec) ELSE Respond(rec, returned[2])

\* COMMIT that stores nothing.
CommitDropped(tbl, pending) == tbl

\* COMMIT: the rows of the transaction join the table.
Commit(tbl, pending) == tbl \cup pending

\* storage.py lines 74-85: created_at is taken, the connection is opened and
\* INSERT OR IGNORE is executed inside a transaction that takes the write
\* lock; or one of these raises.
InsertExecute(r) ==
    /\ req[r].kind = "webhook" /\ req[r].pc = "Validated"
    /\ \E t \in {clock, clock + 1} :
         /\ t <= MaxClock
         /\ clock' = t
         /\ LET row == NewRow(req[r].payload, isoformat(t))
            IN \/ /\ WriteLockFree
                  /\ writer' = r
                  /\ Answer(r, [req[r] EXCEPT
                         !.pc = "Executed",
                         !.created_at = row.created_at,
                         !.pending = InsertOrIgnore(table, row),
                         !.rowcount = Rowcount(table, row)])
               \/ /\ writer' = writer
                  /\ Answer(r, AfterInsert([req[r] EXCEPT !.created_at = row.created_at,
                                                          !.store_raised = TRUE],
                                           insert_message(TRUE, 0)))
    /\ UNCHANGED <<webhook_secret, table, nreq>>

\* storage.py lines 86-92 and main.py lines 137-168: commit, close, and
\* the handler's answer; or commit raises and the transaction is dropped.
InsertCommit(r) ==
    /\ req[r].kind = "webhook" /\ req[r].pc = "Executed"
    /\ writer' = IF writer = r THEN 0 ELSE writer
    /\ \/ /\ table' = Commit(table, req[r].pending)
          /\ Answer(r, AfterInsert(req[r], insert_message(FALSE, req[r].rowcount)))
       \/ /\ table' = table
          /\ Answer(r, AfterInsert([req[r] EXCEPT !.pending = {}, !.store_raised = TRUE],
                                   insert_message(TRUE, req[r].rowcount)))
    /\ UNCHANGED <<webhook_secret, clock, nreq>>

(***************************************************************************)
(* app/main.py: GET /messages, GET /stats, the probes, GET /metrics.       *)
(***************************************************************************)
Query(limit, offset, from_, since, q) ==
    [limit |-> limit, offset |-> offset, from_ |-> from_, since |-> since, q |-> q]

Queries ==
    {Query(100, 0, None, None, None), Query(1, 1, None, None, None),
     Query(50, 0, Str(P1), None, None), Query(0, 0, None, None, None)}

\* Query(ge=1, le=100) and Query(ge=0) of the handler's signature.
QueryValid(query) ==
    /\ query.limit >= 1 /\ query.limit <= 100
    /\ query.offset >= 0

\* A fresh request of a read endpoint.
NewGet(kind, path) ==
    [IdleReq EXCEPT !.kind = kind, !.method = "GET", !.path = path]

Accept(r) ==
    /\ nreq < MaxReqs
    /\ FreeSlot(r)
    /\ nreq' = nreq + 1

\* GET /messages up to the count query of db.get_messages; a query
\* parameter out of range is answered 422 by the framework; an exception of
\* the store is not caught.
MessagesRequest(r, queries) ==
    /\ Accept(r)
    /\ \E query \in queries :
         LET rec == [NewGet("messages", "/messages") EXCEPT !.query = query]
         IN IF ~QueryValid(query)
            THEN Step(r, IdleReq,
                      MiddlewareReturn([rec EXCEPT !.pc = "Responded"], 422, "validation detail"))
            ELSE \/ Step(r, IdleReq, [rec EXCEPT !.pc = "Counted",
                                                 !.total = CountQuery(table, query)])
                 \/ Step(r, IdleReq, MiddlewareRaise([rec EXCEPT !.pc = "Fault"]))
    /\ UNCHANGED <<webhook_secret, table, writer, clock>>

GetMessages(r) == MessagesRequest(r, Queries)

\* The page query and the response (storage.py 131-143, main.py 190-198).
GetMessagesPage(r) ==
    /\ req[r].kind = "messages" /\ req[r].pc = "Counted"
    /\ \/ Answer(r, MiddlewareReturn(
                      [req[r] EXCEPT !.pc = "Responded",
                                     !.data = DataQuery(table, req[r].query),
                                     !.echo = <<req[r].query.limit, req[r].query.offset>>],
                      200, "messages"))
       \/ Answer(r, MiddlewareRaise([req[r] EXCEPT !.pc = "Fault"]))
    /\ UNCHANGED <<webhook_secret, table, writer, clock, nreq>>

\* GET /stats: the four queries of db.get_stats, each on the table as it is
\* when the query runs; an exception of the store is not caught.
GetStats(r) ==
    /\ Accept(r)
    /\ LET rec == NewGet("stats", "/stats")
       IN \/ Step(r, IdleReq, [rec EXCEPT !.pc = "StatsTotal",
                                          !.stats.total_messages = Cardinality(table)])
          \/ Step(r, IdleReq, MiddlewareRaise([rec EXCEPT !.pc = "Fault"]))
    /\ UNCHANGED <<webhook_secret, table, writer, clock>>

GetStatsSenders(r) ==
    /\ req[r].kind = "stats" /\ req[r].pc = "StatsTotal"
    /\ \/ Answer(r, [req[r] EXCEPT !.pc = "StatsSenders",
                                   !.stats.senders_count = Cardinality(Senders(table))])
       \/ Answer(r, MiddlewareRaise([req[r] EXCEPT !.pc = "Fault"]))
    /\ UNCHANGED <<webhook_secret, table, writer, clock, nreq>>

GetStatsTop(r) ==
    /\ req[r].kind = "stats" /\ req[r].pc = "StatsSenders"
    /\ \/ \E list \in TopSenders(table) :
            Answer(r, [req[r] EXCEPT
                         !.pc = "StatsTop",
                         !.stats.messages_per_sender =
                             [i \in DOMAIN list |->
                                 [from_ |-> list[i], count |-> SenderCount(table, list[i])]]])
       \/ Answer(r, MiddlewareRaise([req[r] EXCEPT !.pc = "Fault"]))
    /\ UNCHANGED <<webhook_secret, table, writer, clock, nreq>>

GetStatsTimestamps(r) ==
    /\ req[r].kind = "stats" /\ req[r].pc = "StatsTop"
    /\ \/ Answer(r, MiddlewareReturn(
                      [req[r] EXCEPT !.pc = "Responded",
                                     !.stats.first_message_ts = MinTs(table),
                                     !.stats.last_message_ts = MaxTs(table)],
                      200, "stats"))
       \/ Answer(r, MiddlewareRaise([req[r] EXCEPT !.pc = "Fault"]))
    /\ UNCHANGED <<webhook_secret, table, writer, clock, nreq>>

\* GET /health/live
HealthLive(r) ==
    /\ Accept(r)
    /\ Step(r, IdleReq,
            MiddlewareReturn([NewGet("live", "/health/live") EXCEPT !.pc = "Responded"],
                             200, "ok"))
    /\ UNCHANGED <<webhook_secret, table, writer, clock>>

\* config.is_ready() with no regard to the secret.
AlwaysReady(secret) == TRUE

\* config.is_ready()
is_ready(secret) == Len(secret) > 0

\* db.is_healthy(): SELECT 1 inside try/except, False when it raised.
is_healthy(raised) == ~raised

\* GET /health/ready; the store is asked only when the configuration is
\* ready; store_raised records whether the store fails at this time.
HealthReady(r) ==
    /\ Accept(r)
    /\ \E raised \in BOOLEAN :
         LET rec == [NewGet("ready", "/health/ready") EXCEPT !.pc = "Responded",
                                                              !.store_raised = raised]
         IN Step(r, IdleReq,
                 IF ~is_ready(webhook_secret)
                 THEN MiddlewareReturn(rec, 503, "missing webhook secret")
                 ELSE IF ~is_healthy(raised)
                      THEN MiddlewareReturn(rec, 503, "database unavailable")
                      ELSE MiddlewareReturn(rec, 200, "ready"))
    /\ UNCHANGED <<webhook_secret, table, writer, clock>>

\* GET /metrics
GetMetrics(r) ==
    /\ Accept(r)
    /\ Step(r, IdleReq,
            MiddlewareReturn([NewGet("metrics", "/metrics") EXCEPT !.pc = "Responded"],
                             200, "metrics"))
    /\ UNCHANGED <<webhook_secret, table, writer, clock>>

Next ==
    \E r \in Slots :
        \/ WebhookReceive(r)
        \/ WebhookVerify(r)
        \/ WebhookValidate(r)
        \/ InsertExecute(r)
        \/ InsertCommit(r)
        \/ GetMessages(r)
        \/ GetMessagesPage(r)
        \/ GetStats(r)
        \/ GetStatsSenders(r)
        \/ GetStatsTop(r)
        \/ GetStatsTimestamps(r)
        \/ HealthLive(r)
        \/ HealthReady(r)
        \/ GetMetrics(r)

Spec == Init /\ [][Next]_vars

(***************************************************************************)
(* One request at a time, over every input.                                *)
(***************************************************************************)
NoneInFlight == \A s \in Slots : req[s].pc \in Terminal \cup {"idle"}

SerialReceive == NoneInFlight /\ Receive(1, AllInputs)

NextSerial ==
    \/ SerialReceive
    \/ WebhookVerify(1)
    \/ WebhookValidate(1)
    \/ InsertExecute(1)
    \/ InsertCommit(1)
    \/ NoneInFlight /\ GetMessages(1)
    \/ GetMessagesPage(1)
    \/ NoneInFlight /\ GetStats(1)
    \/ GetStatsSenders(1)
    \/ GetStatsTop(1)
    \/ GetStatsTimestamps(1)
    \/ NoneInFlight /\ HealthLive(1)
    \/ NoneInFlight /\ HealthReady(1)
    \/ NoneInFlight /\ GetMetrics(1)

SpecSerial == Init /\ [][NextSerial]_vars

(***************************************************************************)
(* The read endpoints over stored tables: GET /messages with every         *)
(* combination of parameters, and GET /stats, on a table nobody writes.    *)
(***************************************************************************)
T0 == <<"2", "0", "2", "4", "-", "0", "1", "-", "1", "5", "T",
        "1", "0", ":", "3", "0", ":", "0", "0", ".", "5", "Z">>

\* Rows that valid payloads have stored, not in the order of their keys.
RowPool ==
    {Row(M1, P1, P2, T1, Str(<<"a", "B">>), isoformat(0)),
     Row(M2, P2, P1, T1, None, isoformat(1)),
     Row(<<"m", "0">>, P1, P2, T2, Str(<<"a", "_", "b">>), isoformat(2)),
     Row(<<"m", "3">>, P1, P2, T0, Str(<<"%">>), isoformat(3)),
     Row(<<"A">>, P2, P2, T1, Str(<<"A", "b">>), isoformat(4))}

TwoDigits(n) == <<ClockTokens[(n \div 10) + 1], ClockTokens[(n % 10) + 1]>>

\* Eleven senders: sender i has 11 - i rows, the eleventh has one row, as
\* many as the tenth.
ManySenders ==
    UNION {{Row(<<"m">> \o TwoDigits(i) \o TwoDigits(j), <<"+">> \o TwoDigits(i), P2,
                IF j % 2 = 0 THEN T1 ELSE T2, None, isoformat(j % 10)) :
            j \in 1..(IF i <= 10 THEN 11 - i ELSE 1)} : i \in 1..11}

StoredTables == SUBSET RowPool

InitStored(tables) ==
    /\ webhook_secret = <<"k">>
    /\ table \in tables
    /\ writer = 0
    /\ clock = 0
    /\ req = [r \in Slots |-> IdleReq]
    /\ nreq = 0
    /\ webhook_requests_total = [l \in Results |-> 0]
    /\ http_requests_total = [k \in HttpKeys |-> 0]

AllQueries ==
    {Query(limit, offset, from_, since, q) :
        limit \in {1, 2, 100}, offset \in {0, 1, 3},
        from_ \in {None, Str(<<>>), Str(P1)}, since \in {None, Str(T1)},
        q \in {None, Str(<<>>), Str(<<"a">>), Str(<<"B">>), Str(<<"_">>), Str(<<"%">>)}}
    \cup {Query(0, 0, None, None, None), Query(101, 0, None, None, None),
          Query(50, -1, None, None, None)}

\* One request on each stored table.
QueryMessages == nreq = 0 /\ MessagesRequest(1, AllQueries)

NextQuery ==
    \/ QueryMessages
    \/ GetMessagesPage(1)

SpecQuery == InitStored(StoredTables) /\ [][NextQuery]_vars

NextStats ==
    \/ NoneInFlight /\ GetStats(1)
    \/ GetStatsSenders(1)
    \/ GetStatsTop(1)
    \/ GetStatsTimestamps(1)

SpecStats == InitStored(StoredTables \cup {ManySenders}) /\ [][NextStats]_vars

(***************************************************************************)
(* Properties.                                                             *)
(***************************************************************************)
TypeOK ==
    /\ webhook_secret \in Secrets
    /\ writer \in Slots \cup {0}
    /\ nreq \in 0..MaxReqs

\* A POST /webhook that has been answered.
WebhookDone(r) == req[r].kind = "webhook" /\ req[r].pc \in Terminal

\* The header is the lowercase hex HMAC of the body under the secret.
SignatureMatches(rec) == rec.signature = Str(HmacHex(webhook_secret, rec.body))

\* A correctly signed, valid POST /webhook that has been answered.
GoodDone(r) ==
    /\ WebhookDone(r)
    /\ SignatureMatches(req[r])
    /\ PayloadValid(req[r].body)

\* The row a valid body asks to store, given the store's created_at.
Submitted(body, created_at) ==
    Row(body.obj["message_id"].s, body.obj["from"].s, body.obj["to"].s,
        body.obj["ts"].s,
        IF "text" \in DOMAIN body.obj THEN body.obj["text"] ELSE None,
        created_at)

Unfiltered == Query(100, 0, None, None, None)

InList(list, x) == \E i \in 1..Len(list) : list[i] = x

C1_DuplicateAnswered ==
    \A r \in Slots :
        GoodDone(r) /\ req[r].rows_before # {} =>
            /\ RowsOf(table, req[r].body) = req[r].rows_before
            /\ ~req[r].store_raised =>
                  /\ req[r].status = 200 /\ req[r].detail = "ok"
                  /\ req[r].result = "duplicate"
                  /\ req[r].counted = <<"duplicate">>

C1_DuplicateStep ==
    \A r \in Slots :
        /\ req[r].kind = "webhook" /\ req[r].pc \notin Terminal
        /\ req[r].rows_before # {}
        /\ req'[r] # req[r]
        => table' = table

\* C1: a correctly signed, valid POST /webhook whose message_id is already
\* stored is answered 200 {"status":"ok"} and classified duplicate (unless
\* the store itself fails), and no step of it changes the table: the stored
\* row keeps every field and the number of rows stays the same.
C1_Duplicate == []C1_DuplicateAnswered /\ [][C1_DuplicateStep]_vars

\* A duplicate whose text differs from the stored one has been answered.
C1_Witness ==
    \E r \in Slots :
        /\ GoodDone(r) /\ req[r].result = "duplicate"
        /\ \E row \in req[r].rows_before : row.text # req[r].payload.text
        /\ Cardinality(table) = 1

\* C2: a correctly signed, valid POST /webhook whose message_id is not
\* stored is answered 200 {"status":"ok"} and classified success (unless the
\* store fails); GET /messages then lists a row with the submitted
\* message_id, from, to, ts and text verbatim and with the created_at the
\* store took from its clock, not the one the client sent; and a GET
\* /messages without filters returns every stored row.
C2_FirstPostStored ==
    /\ \A r \in Slots :
          GoodDone(r) /\ req[r].rows_before = {} /\ ~req[r].store_raised =>
              /\ req[r].status = 200 /\ req[r].detail = "ok"
              /\ req[r].result = "success"
              /\ InList(DataQuery(table, Unfiltered),
                        Submitted(req[r].body, req[r].created_at))
              /\ \E t \in 0..clock : req[r].created_at = isoformat(t)
              /\ req[r].created_at # ClientCreatedAt
    /\ \A r \in Slots :
          /\ req[r].kind = "messages" /\ req[r].pc = "Responded"
          /\ req[r].status = 200 /\ req[r].query = Unfiltered
          => \A row \in table : InList(req[r].data, row)

\* A first POST that also carried a created_at of its own has been stored.
C2_Witness ==
    \E r \in Slots :
        /\ GoodDone(r) /\ req[r].result = "success"
        /\ "created_at" \in DOMAIN req[r].body.obj
        /\ Submitted(req[r].body, req[r].created_at) \in table

\* Two answered requests for one message_id, neither of which found it
\* stored when it arrived.
Raced(r1, r2) ==
    /\ r1 # r2
    /\ GoodDone(r1) /\ GoodDone(r2)
    /\ req[r1].body.obj["message_id"] = req[r2].body.obj["message_id"]
    /\ req[r1].rows_before = {} /\ req[r2].rows_before = {}

\* C3: of two concurrently handled requests with the same unstored
\* message_id at most one is classified success, the table never holds two
\* rows of that message_id, and it holds exactly one once either insert has
\* succeeded.
C3_ConcurrentInsert ==
    \A r1, r2 \in Slots :
        Raced(r1, r2) =>
            /\ ~(req[r1].result = "success" /\ req[r2].result = "success")
            /\ Cardinality(RowsOf(table, req[r1].body)) <= 1
            /\ req[r1].pc = "Responded" \/ req[r2].pc = "Responded" =>
                  Cardinality(RowsOf(table, req[r1].body)) = 1

\* Both racing requests were answered 200, with different submitted fields.
C3_Witness ==
    \E r1, r2 \in Slots :
        /\ Raced(r1, r2)
        /\ req[r1].pc = "Responded" /\ req[r2].pc = "Responded"
        /\ req[r1].payload.text # req[r2].payload.text
        /\ {req[r1].result, req[r2].result} = {"success", "duplicate"}

\* C4: a POST /webhook whose X-Signature is missing or does not match is
\* answered 401 {"detail":"invalid signature"}, classified
\* invalid_signature, whatever the body, and never reaches the store.
C4_SignatureFirst ==
    \A r \in Slots :
        WebhookDone(r) /\ ~SignatureMatches(req[r]) =>
            /\ req[r].status = 401 /\ req[r].detail = "invalid signature"
            /\ req[r].result = "invalid_signature"
            /\ req[r].created_at = <<>>

\* C5: a correctly signed POST /webhook whose payload fails validation ends
\* in RejectedValidation, the response returned has status 422, the outcome
\* is validation_error and no insert is performed.
C5_ValidationRejected ==
    \A r \in Slots :
        WebhookDone(r) /\ SignatureMatches(req[r]) /\ ~PayloadValid(req[r].body) =>
            /\ req[r].pc = "RejectedValidation"
            /\ req[r].status = 422
            /\ req[r].result = "validation_error"
            /\ req[r].created_at = <<>>

\* C6: a failure of the store during insert never reaches the handler as an
\* exception: the request ends in StoreFailed with 500 {"detail":"database
\* error"} and outcome db_error, and is never counted success or duplicate.
C6_StoreFailure ==
    \A r \in Slots :
        req[r].kind = "webhook" /\ req[r].store_raised =>
            /\ req[r].pc = "StoreFailed"
            /\ ~req[r].unhandled
            /\ req[r].status = 500 /\ req[r].detail = "database error"
            /\ req[r].result = "db_error"
            /\ req[r].counted = <<"db_error">>

\* The store failed at commit, after the statement had been executed.
C6_Witness ==
    \E r \in Slots :
        /\ WebhookDone(r) /\ req[r].store_raised
        /\ req[r].rowcount = 1
        /\ RowsOf(table, req[r].body) = {}

\* C7: every answered POST /webhook has emitted exactly one log record and
\* incremented exactly one webhook_requests_total counter, whose label is
\* the request's outcome classification.
C7_OneLogOneCounter ==
    \A r \in Slots :
        WebhookDone(r) =>
            /\ Len(req[r].logged) = 1
            /\ Len(req[r].counted) = 1
            /\ req[r].counted[1] \in Results
            /\ req[r].counted[1] = req[r].logged[1].result

\* C8: no request of any endpoint ends with an exception that escaped its
\* handler: every answer is a status of the taxonomy with a structured body.
C8_NoUnhandledFault ==
    \A r \in Slots :
        req[r].pc \in Terminal =>
            /\ ~req[r].unhandled
            /\ req[r].status \in {200, 401, 422, 500, 503}
            /\ req[r].detail # "Internal Server Error"

\* C9: an exception of the store during the queries of GET /messages or
\* GET /stats does not propagate to the query handler.
C9_QueryFailureCaught ==
    \A r \in Slots :
        req[r].kind \in {"messages", "stats"} => req[r].pc # "Fault"

UniqueKeys ==
    \A a, b \in table : a.message_id = b.message_id => a = b

RowsKept == \A row \in table : row \in table'

\* C10: the table never holds two rows of one message_id, and a stored row
\* is never updated or deleted: every row of the table is in the table,
\* with the same fields, after every step.
C10_RowsImmutable == []UniqueKeys /\ [][RowsKept]_vars

\* Two rows are stored, or one is stored and a later insert of its
\* message_id has been answered.
C10_Witness ==
    \/ Cardinality(table) = 2
    \/ table # {} /\ \E r \in Slots : GoodDone(r) /\ req[r].result = "duplicate"

\* A GET /messages that has been answered 200.
MessagesAnswered(r) ==
    req[r].kind = "messages" /\ req[r].pc = "Responded" /\ req[r].status = 200

\* C11: the list GET /messages returns is sorted by ts ascending, then by
\* message_id ascending: of every two adjacent rows, the first has the
\* smaller ts, or the same ts and the smaller message_id; this for every
\* stored table and every combination of filters, whatever the order in
\* which the rows were stored.
C11_Sorted ==
    \A r \in Slots :
        MessagesAnswered(r) =>
            \A i \in 1..(Len(req[r].data) - 1) :
                LET a == req[r].data[i]
                    b == req[r].data[i + 1]
                IN \/ StrLess(a.ts, b.ts)
                   \/ a.ts = b.ts /\ StrLess(a.message_id, b.message_id)

\* A page with two rows of the same ts, two rows of different ts, and a row
\* listed before one that was stored earlier.
C11_Witness ==
    \E r \in Slots :
        /\ MessagesAnswered(r)
        /\ Len(req[r].data) >= 3
        /\ \E i \in 1..(Len(req[r].data) - 1) : req[r].data[i].ts = req[r].data[i + 1].ts
        /\ \E i \in 1..(Len(req[r].data) - 1) : req[r].data[i].ts # req[r].data[i + 1].ts
        /\ \E i \in 1..(Len(req[r].data) - 1) :
               StrLess(req[r].data[i + 1].created_at, req[r].data[i].created_at)

\* The rows of the table a query's filters select.
Filtered(query) == {row \in table : Where(row, query.from_, query.since, query.q)}

\* Row a comes before row b by (ts, message_id).
Precedes(a, b) ==
    \/ StrLess(a.ts, b.ts)
    \/ a.ts = b.ts /\ StrLess(a.message_id, b.message_id)

Min(a, b) == IF a < b THEN a ELSE b

\* C12: on a table nobody writes, for every limit in 1..100 and offset >= 0
\* the page is the slice [offset, offset + limit) of the ordered filtered
\* list: it has min(limit, max(0, n - offset)) rows, where n is the number of
\* rows the filters select, its i-th row is the selected row with exactly
\* offset + i - 1 selected rows before it, and `total` is n whatever limit
\* and offset are.
C12_PageIsSlice ==
    \A r \in Slots :
        MessagesAnswered(r) =>
            LET query == req[r].query
                rows == Filtered(query)
                n == Cardinality(rows)
                rest == IF n > query.offset THEN n - query.offset ELSE 0
            IN /\ req[r].total = n
               /\ Len(req[r].data) = Min(query.limit, rest)
               /\ \A i \in 1..Len(req[r].data) :
                      /\ req[r].data[i] \in rows
                      /\ Cardinality({row \in rows : Precedes(row, req[r].data[i])})
                            = query.offset + i - 1

\* A filtered page strictly inside the list: rows are skipped before it and
\* rows are left after it.
C12_Witness ==
    \E r \in Slots :
        /\ MessagesAnswered(r)
        /\ Truthy(req[r].query.from_)
        /\ req[r].query.offset >= 1
        /\ Len(req[r].data) = req[r].query.limit
        /\ req[r].total > req[r].query.offset + req[r].query.limit
        /\ req[r].total < Cardinality(table)

\* t contains s as a substring, letters compared without regard to case.
Contains(t, s) ==
    \E i \in 0..(Len(t) - Len(s)) :
        \A j \in 1..Len(s) : Fold(t[i + j]) = Fold(s[j])

\* C13: whenever q is given, GET /messages selects exactly the messages that
\* have a text containing the query string as a literal substring, compared
\* case-insensitively, whatever characters the query string has (% and _
\* included); messages without text are left out.
C13_LiteralSubstring ==
    \A r \in Slots :
        MessagesAnswered(r) /\ req[r].query.q.kind = "string" =>
            LET query == req[r].query
                rows == {row \in table :
                            /\ Where(row, query.from_, query.since, None)
                            /\ row.text.kind = "string"
                            /\ Contains(row.text.s, query.q.s)}
            IN /\ req[r].total = Cardinality(rows)
               /\ \A i \in 1..Len(req[r].data) : req[r].data[i] \in rows

\* A filter that is supplied holds of the row.
FromHolds(row, from_) == from_.kind = "string" => row.from_msisdn = from_.s

SinceHolds(row, since) == since.kind = "string" => StrLeq(since.s, row.ts)

\* C14: the from and since filters are conjunctive whenever supplied: with
\* from supplied, the empty string included, every returned message has
\* exactly that sender; with since supplied every returned message has
\* ts >= since; and the result and its total miss no stored message that
\* satisfies all the supplied filters.
C14_FromSinceConjunctive ==
    \A r \in Slots :
        MessagesAnswered(r) =>
            LET query == req[r].query
                rows == {row \in table :
                            /\ FromHolds(row, query.from_)
                            /\ SinceHolds(row, query.since)
                            /\ Where(row, None, None, query.q)}
            IN /\ \A i \in 1..Len(req[r].data) :
                      /\ FromHolds(req[r].data[i], query.from_)
                      /\ SinceHolds(req[r].data[i], query.since)
               /\ req[r].total = Cardinality(rows)

\* The parameter bounds of GET /messages.
InBounds(query) == query.limit >= 1 /\ query.limit <= 100 /\ query.offset >= 0

\* C15: GET /messages answers 422 exactly when limit is outside 1..100 or
\* offset is negative, and then without any query on the store; for every
\* limit in 1..100 and offset >= 0 it answers 200 and the response carries
\* the limit and offset of the request.
C15_ParameterBounds ==
    \A r \in Slots :
        req[r].kind = "messages" =>
            LET query == req[r].query
            IN /\ ~InBounds(query) =>
                     /\ req[r].pc = "Responded" /\ req[r].status = 422
                     /\ req[r].total = 0 /\ req[r].data = <<>>
               /\ InBounds(query) /\ req[r].pc \in Terminal =>
                     /\ req[r].status = 200
                     /\ req[r].echo = <<query.limit, query.offset>>

\* A GET /stats that has been answered 200.
StatsAnswered(r) ==
    req[r].kind = "stats" /\ req[r].pc = "Responded" /\ req[r].status = 200

\* The number of stored rows of a sender.
RowsFrom(from) == Cardinality({row \in table : row.from_msisdn = from})

\* C16: for every stored table, stats returns total_messages = the number of
\* rows; senders_count = the number of distinct senders; messages_per_sender
\* with at most 10 entries, each a sender with its true number of rows, by
\* count descending, no sender left out having more rows than a listed one;
\* first_message_ts and last_message_ts = the lexicographic minimum and
\* maximum of ts, first <= last, when a row exists; on an empty table both
\* timestamps absent and both counts zero.
C16_Stats ==
    \A r \in Slots :
        StatsAnswered(r) =>
            LET stats == req[r].stats
                top == stats.messages_per_sender
                listed == {top[i].from_ : i \in 1..Len(top)}
            IN /\ stats.total_messages = Cardinality(table)
               /\ stats.senders_count = Cardinality({row.from_msisdn : row \in table})
               /\ Len(top) <= 10
               /\ \A i \in 1..Len(top) :
                      top[i].count = RowsFrom(top[i].from_) /\ top[i].count >= 1
               /\ \A i \in 1..(Len(top) - 1) : top[i].count >= top[i + 1].count
               /\ \A row \in table :
                      row.from_msisdn \notin listed =>
                          /\ Len(top) = 10
                          /\ \A i \in 1..Len(top) : RowsFrom(row.from_msisdn) <= top[i].count
               /\ table # {} =>
                      /\ stats.first_message_ts.kind = "string"
                      /\ stats.last_message_ts.kind = "string"
                      /\ \E row \in table : row.ts = stats.first_message_ts.s
                      /\ \E row \in table : row.ts = stats.last_message_ts.s
                      /\ \A row \in table :
                             /\ StrLeq(stats.first_message_ts.s, row.ts)
                             /\ StrLeq(row.ts, stats.last_message_ts.s)
                      /\ StrLeq(stats.first_message_ts.s, stats.last_message_ts.s)
               /\ table = {} =>
                      /\ stats.first_message_ts = None /\ stats.last_message_ts = None
                      /\ stats.total_messages = 0 /\ stats.senders_count = 0
                      /\ top = <<>>

\* Stats of a table with more than ten senders, two of them with the count
\* of the tenth place, and different first and last ts.
C16_Witness ==
    \E r \in Slots :
        /\ StatsAnswered(r)
        /\ req[r].stats.senders_count > 10
        /\ Len(req[r].stats.messages_per_sender) = 10
        /\ \E row \in table :
               /\ \A i \in 1..10 : req[r].stats.messages_per_sender[i].from_ # row.from_msisdn
               /\ RowsFrom(row.from_msisdn) = req[r].stats.messages_per_sender[10].count
        /\ req[r].stats.first_message_ts # req[r].stats.last_message_ts

\* Stats of the empty table.
C16_WitnessEmpty == \E r \in Slots : StatsAnswered(r) /\ table = {}

\* C17: GET /health/ready answers 200 "ready" if and only if the secret is
\* non-empty and the store's health check passes; otherwise 503 with a
\* reason, and 503 with an empty secret whatever the store's state; the
\* health check answers false when the store fails and raises nothing;
\* GET /health/live answers 200 in every state.
C17_Health ==
    \A r \in Slots :
        /\ req[r].kind = "ready" =>
              /\ req[r].pc = "Responded" /\ ~req[r].unhandled
              /\ req[r].status = 200 <=> webhook_secret # <<>> /\ ~req[r].store_raised
              /\ req[r].status = 200 => req[r].detail = "ready"
              /\ req[r].status # 200 =>
                    /\ req[r].status = 503
                    /\ req[r].detail \in {"missing webhook secret", "database unavailable"}
              /\ req[r].store_raised /\ webhook_secret # <<>> =>
                    req[r].detail = "database unavailable"
              /\ webhook_secret = <<>> =>
                    req[r].status = 503 /\ req[r].detail = "missing webhook secret"
        /\ req[r].kind = "live" =>
              req[r].pc = "Responded" /\ req[r].status = 200 /\ req[r].detail = "ok"

\* With an empty secret and a healthy store, readiness has been answered 503
\* and liveness 200.
C17_Witness ==
    /\ webhook_secret = <<>>
    /\ \E r \in Slots :
           req[r].kind = "ready" /\ req[r].status = 503 /\ ~req[r].store_raised
    /\ http_requests_total[<<"GET", "/health/live", 200>>] = 1

\* With a secret, readiness has been answered 503 for a failing store.
C17_WitnessStore ==
    \E r \in Slots :
        req[r].kind = "ready" /\ req[r].store_raised /\ webhook_secret # <<>>

\* `+` followed by one or more of the digits 0-9, over the whole string.
WholeE164(v) ==
    /\ Len(v) >= 2
    /\ v[1] = "+"
    /\ \A i \in 2..Len(v) : v[i] \in Digits

\* YYYY-MM-DDTHH:MM:SS, an optional fraction, Z, over the whole string.
WholeIso8601(v) ==
    /\ Len(v) >= Len(IsoFixed) + 1
    /\ \A i \in 1..Len(IsoFixed) :
          IF IsoFixed[i] = "d" THEN v[i] \in Digits ELSE v[i] = IsoFixed[i]
    /\ v[Len(v)] = "Z"
    /\ \/ Len(v) = Len(IsoFixed) + 1
       \/ /\ Len(v) >= Len(IsoFixed) + 3
          /\ v[Len(IsoFixed) + 1] = "."
          /\ \A i \in (Len(IsoFixed) + 2)..(Len(v) - 1) : v[i] \in Digits

\* The bodies the payload validator is to accept.
Acceptable(body) ==
    /\ body.json = "object"
    /\ IsStrField(body.obj, "message_id") /\ body.obj["message_id"].s # <<>>
    /\ IsStrField(body.obj, "from") /\ WholeE164(body.obj["from"].s)
    /\ IsStrField(body.obj, "to") /\ WholeE164(body.obj["to"].s)
    /\ IsStrField(body.obj, "ts") /\ WholeIso8601(body.obj["ts"].s)
    /\ \/ "text" \notin DOMAIN body.obj
       \/ body.obj["text"].kind = "null"
       \/ body.obj["text"].kind = "string" /\ Len(body.obj["text"].s) <= 4096

\* C18: the payload validator accepts a body if and only if it is a JSON
\* object with message_id a non-empty string, from and to each `+` followed
\* by one or more digits 0-9 over the whole string (no trailing newline, no
\* digit outside ASCII), ts the strict ISO-8601-Z pattern over the whole
\* string, and text absent or a string of at most 4096 characters; every
\* other body is rejected with a validation error.
C18_ValidatorExact ==
    \A r \in Slots :
        req[r].kind = "webhook" =>
            /\ req[r].payload # NoPayload => Acceptable(req[r].body)
            /\ req[r].pc = "RejectedValidation" => ~Acceptable(req[r].body)

\* C19: for every body, header value and secret, verify returns a boolean:
\* false when the signature is absent or empty, and otherwise true exactly
\* when the signature is the lowercase hex HMAC-SHA256 of the body under
\* the secret, so false for every other string.
C19_VerifyBoolean ==
    \A r \in Slots :
        req[r].kind = "webhook" /\ req[r].pc # "Received" =>
            LET returned == verify_signature(webhook_secret, req[r].body, req[r].signature)
            IN /\ returned \in {"True", "False"}
               /\ ~Truthy(req[r].signature) => returned = "False"
               /\ returned = "True" <=> SignatureMatches(req[r])
               /\ returned = "False" <=> req[r].pc = "RejectedSignature"

\* The states of a webhook request and the ones it ends in.
Lifecycle ==
    {"Received", "SignatureChecked", "Validated", "Executed", "Responded",
     "RejectedSignature", "RejectedValidation", "StoreFailed"}

\* The store's insert has been invoked for the request.
InsertInvoked(rec) == rec.created_at # <<>>

\* C20: a webhook request moves through Received, SignatureChecked,
\* Validated, Persisted, Responded in that order and leaves only by
\* RejectedSignature, RejectedValidation or StoreFailed; the store's insert
\* is invoked only after the signature check and the payload validation of
\* the same request have both succeeded, and a request that has ended is in
\* one of the ending states named.
C20_Lifecycle ==
    \A r \in Slots :
        req[r].kind = "webhook" =>
            /\ req[r].pc \in Lifecycle
            /\ req[r].pc \in {"Received", "RejectedSignature"} =>
                  req[r].payload = NoPayload /\ ~InsertInvoked(req[r])
            /\ req[r].pc \in {"SignatureChecked", "RejectedValidation"} =>
                  /\ SignatureMatches(req[r])
                  /\ req[r].payload = NoPayload /\ ~InsertInvoked(req[r])
            /\ req[r].pc = "Validated" =>
                  /\ SignatureMatches(req[r]) /\ PayloadValid(req[r].body)
                  /\ ~InsertInvoked(req[r])
            /\ req[r].pc \in {"Executed", "Responded", "StoreFailed"} =>
                  /\ SignatureMatches(req[r]) /\ PayloadValid(req[r].body)
                  /\ InsertInvoked(req[r])
            /\ req[r].pc = "StoreFailed" <=> req[r].store_raised
            /\ req[r].pc \in Terminal => Len(req[r].counted) = 1

\* The sum of a counter family over a set of its labels.
RECURSIVE SumOver(_, _)
SumOver(f, keys) ==
    IF keys = {} THEN 0
    ELSE LET k == CHOOSE x \in keys : TRUE
         IN f[k] + SumOver(f, keys \ {k})

\* The request of slot r is answered in this step: one that was in flight
\* ends, or one arrives and is answered at once.
Completes(r) ==
    /\ req'[r].pc \in Terminal
    /\ \/ req[r].pc \notin Terminal \cup {"idle"}
       \/ nreq' = nreq + 1 /\ FreeSlot(r)

\* C21: counter increments are neither lost nor doubled under concurrently
\* handled requests: in every step the sum of webhook_requests_total over
\* its labels grows by the number of webhook requests completed in that
\* step, so by N over N completed webhook requests, and no counter of
\* http_requests_total or webhook_requests_total ever decreases.
C21_CountersAtomic ==
    [][/\ SumOver(webhook_requests_total', Results)
            = SumOver(webhook_requests_total, Results)
              + Cardinality({r \in Slots : req'[r].kind = "webhook" /\ Completes(r)})
       /\ \A l \in Results : webhook_requests_total'[l] >= webhook_requests_total[l]
       /\ \A k \in HttpKeys : http_requests_total'[k] >= http_requests_total[k]]_vars

\* The requests received and not yet answered.
InFlight == {r \in Slots : req[r].pc \notin Terminal \cup {"idle"}}

\* C23: every request, on every endpoint and for every outcome (a webhook
\* request ending in a validation error or a server error included),
\* increments http_requests_total exactly once, under the label (method,
\* path, status) of the status returned to the client: an answered request
\* has made one increment, the counter of its label is at least one, and
\* the counters sum to the number of requests answered.
C23_HttpCountedOnce ==
    /\ \A r \in Slots :
           req[r].pc \in Terminal =>
               /\ req[r].http_counted = 1
               /\ http_requests_total[<<req[r].method, req[r].path, req[r].status>>] >= 1
    /\ SumOver(http_requests_total, HttpKeys) = nreq - Cardinality(InFlight)

RowsEqualSuccesses == Cardinality(table) = webhook_requests_total["success"]

\* A webhook request answered in this step is classified success exactly
\* when the step adds its row, and a step that answers no request as
\* success leaves the table as it is.
SuccessAddsRow ==
    /\ \A r \in Slots :
           req'[r].kind = "webhook" /\ Completes(r) =>
               /\ req'[r].result = "success" <=>
                     /\ Cardinality(table') = Cardinality(table) + 1
                     /\ RowsOf(table, req[r].body) = {}
                     /\ RowsOf(table', req[r].body) =
                            {NewRow(req[r].payload, req[r].created_at)}
               /\ req'[r].result # "success" => table' = table
    /\ webhook_requests_total'["success"] = webhook_requests_total["success"] =>
           table' = table

\* C24: from an empty store and zeroed counters, in every reachable state
\* the number of stored rows is the value of webhook_requests_total for
\* result success: a request is classified success exactly when its own
\* insert created the row, and every other classification leaves the
\* number of rows unchanged.
C24_RowsAreSuccesses == []RowsEqualSuccesses /\ [][SuccessAddsRow]_vars

\* One row is stored and counted, and a second request of the same run was
\* classified otherwise.
C24_Witness ==
    /\ Cardinality(table) = 1
    /\ webhook_requests_total["success"] = 1
    /\ \E l \in Results \ {"success"} : webhook_requests_total[l] = 1

\* The sum of the counts of a messages_per_sender list.
RECURSIVE SumCounts(_)
SumCounts(list) == IF list = <<>> THEN 0 ELSE Head(list).count + SumCounts(Tail(list))

\* C25: every GET /stats response is a consistent snapshot, inserts
\* interleaved with its computation or not: total_messages is 0 if and only
\* if first_message_ts and last_message_ts are absent, senders_count is at
\* most total_messages and is 0 if and only if total_messages is 0, and the
\* counts of messages_per_sender sum to at most total_messages.
C25_StatsSnapshot ==
    \A r \in Slots :
        StatsAnswered(r) =>
            LET stats == req[r].stats
            IN /\ stats.total_messages = 0 <=>
                     stats.first_message_ts = None /\ stats.last_message_ts = None
               /\ stats.first_message_ts = None <=> stats.last_message_ts = None
               /\ stats.senders_count <= stats.total_messages
               /\ stats.senders_count = 0 <=> stats.total_messages = 0
               /\ SumCounts(stats.messages_per_sender) <= stats.total_messages

\* C26: every GET /messages response is consistent, inserts interleaved
\* between its count query and its page query or not: `data` has
\* min(limit, max(0, total - offset)) items for the `total` of the same
\* response, so never more than total.
C26_PageMatchesTotal ==
    \A r \in Slots :
        MessagesAnswered(r) =>
            LET rest == IF req[r].total > req[r].echo[2]
                        THEN req[r].total - req[r].echo[2] ELSE 0
            IN /\ Len(req[r].data) = Min(req[r].echo[1], rest)
               /\ Len(req[r].data) <= req[r].total

\* C27: while the configured secret is empty, no POST /webhook passes the
\* signature check, whatever its body and X-Signature: none gets past
\* Received other than by rejection, and no row is stored.
C27_EmptySecretRejects ==
    webhook_secret = <<>> =>
        /\ table = {}
        /\ \A r \in Slots :
               req[r].kind = "webhook" =>
                   /\ req[r].pc \in {"Received", "RejectedSignature", "Fault"}
                   /\ req[r].payload = NoPayload
                   /\ req[r].pending = {}

====
